---- MODULE Spec2Model ----
(***************************************************************************)
(* Anqair: the streamed-JSON decoder (parseJsonStream), the response       *)
(* extractor (extractJson) and the generation pipeline of the App          *)
(* component, as a state machine.                                          *)
(*                                                                         *)
(* Text is a sequence of atoms.  An atom is one character, written as a    *)
(* one-character string; a few fixed texts that are never parsed nor       *)
(* measured are written as one longer atom.  JavaScript values are tagged  *)
(* records [t |-> tag, v |-> payload].                                     *)
(***************************************************************************)
EXTENDS Integers, Sequences, FiniteSets, TLC

(***************************************************************************)
(* Text helpers (String.prototype methods used by the source).             *)
(***************************************************************************)

\* buffer.indexOf(c, from): least index >= from holding c; 0 stands for -1.
RECURSIVE IndexOfFrom(_, _, _)
IndexOfFrom(s, c, from) ==
    IF from > Len(s) THEN 0
    ELSE IF s[from] = c THEN from
    ELSE IndexOfFrom(s, c, from + 1)

\* s.lastIndexOf(c); 0 stands for -1.
RECURSIVE LastIndexOfUpTo(_, _, _)
LastIndexOfUpTo(s, c, upto) ==
    IF upto < 1 THEN 0
    ELSE IF s[upto] = c THEN upto
    ELSE LastIndexOfUpTo(s, c, upto - 1)

\* s.substring(from - 1) in 1-based positions.
Substring(s, from) == SubSeq(s, from, Len(s))

\* s.startsWith(p) at position i (1-based).
StartsWithAt(s, p, i) ==
    /\ i >= 1
    /\ i + Len(p) - 1 <= Len(s)
    /\ SubSeq(s, i, i + Len(p) - 1) = p

\* Least index >= from where p occurs in s; 0 when it does not.
RECURSIVE FindFrom(_, _, _)
FindFrom(s, p, from) ==
    IF from + Len(p) - 1 > Len(s) THEN 0
    ELSE IF StartsWithAt(s, p, from) THEN from
    ELSE FindFrom(s, p, from + 1)

RECURSIVE Concat(_)
Concat(ss) == IF ss = <<>> THEN <<>> ELSE Head(ss) \o Concat(Tail(ss))

(***************************************************************************)
(* JSON.parse, over texts whose numbers are unsigned decimal integers and  *)
(* whose strings hold no backslash.                                        *)
(***************************************************************************)

JsonWhitespace == {" ", "\n", "\t", "\r"}
ControlChars == {"\n", "\t", "\r"}
Digits == <<"0", "1", "2", "3", "4", "5", "6", "7", "8", "9">>
IsDigit(c) == \E d \in 1..10 : Digits[d] = c
DigitValue(c) == (CHOOSE d \in 1..10 : Digits[d] = c) - 1

Num(n) == [t |-> "num", v |-> n]
Str(s) == [t |-> "str", v |-> s]
Arr(es) == [t |-> "arr", v |-> es]
Obj(ms) == [t |-> "obj", v |-> ms]
Bool(b) == [t |-> "bool", v |-> b]
Null == [t |-> "null", v |-> <<>>]
Undefined == [t |-> "undefined", v |-> <<>>]

ParseOk(val, pos) == [ok |-> TRUE, val |-> val, pos |-> pos]
ParseFail == [ok |-> FALSE, val |-> Undefined, pos |-> 0]

RECURSIVE SkipWs(_, _)
SkipWs(s, i) ==
    IF i <= Len(s) /\ s[i] \in JsonWhitespace THEN SkipWs(s, i + 1) ELSE i

\* A string literal opening at s[i] = '"': up to the next '"'.
ParseString(s, i) ==
    LET close == IndexOfFrom(s, "\"", i + 1) IN
    IF close = 0 THEN ParseFail
    ELSE LET body == SubSeq(s, i + 1, close - 1) IN
         IF \E k \in 1..Len(body) : body[k] \in ControlChars
         THEN ParseFail
         ELSE ParseOk(Str(body), close + 1)

RECURSIVE ParseDigits(_, _, _)
ParseDigits(s, i, n) ==
    IF i <= Len(s) /\ IsDigit(s[i])
    THEN ParseDigits(s, i + 1, 10 * n + DigitValue(s[i]))
    ELSE ParseOk(Num(n), i)

\* A number opening at the digit s[i]; a leading 0 stands alone.
ParseNumber(s, i) ==
    IF s[i] = "0" THEN ParseOk(Num(0), i + 1) ELSE ParseDigits(s, i, 0)

\* Object members in insertion order; a repeated key keeps its place and
\* takes the later value.
SetMember(ms, k, val) ==
    IF \E n \in 1..Len(ms) : ms[n].k = k
    THEN [n \in 1..Len(ms) |-> IF ms[n].k = k THEN [k |-> k, val |-> val] ELSE ms[n]]
    ELSE Append(ms, [k |-> k, val |-> val])

RECURSIVE ParseValue(_, _)
RECURSIVE ParseMembers(_, _, _)
RECURSIVE ParseElements(_, _, _)

ParseValue(s, i) ==
    LET j == SkipWs(s, i) IN
    IF j > Len(s) THEN ParseFail
    ELSE IF s[j] = "{" THEN
        LET k == SkipWs(s, j + 1) IN
        IF k <= Len(s) /\ s[k] = "}" THEN ParseOk(Obj(<<>>), k + 1)
        ELSE ParseMembers(s, k, <<>>)
    ELSE IF s[j] = "[" THEN
        LET k == SkipWs(s, j + 1) IN
        IF k <= Len(s) /\ s[k] = "]" THEN ParseOk(Arr(<<>>), k + 1)
        ELSE ParseElements(s, k, <<>>)
    ELSE IF s[j] = "\"" THEN ParseString(s, j)
    ELSE IF IsDigit(s[j]) THEN ParseNumber(s, j)
    ELSE IF StartsWithAt(s, <<"t", "r", "u", "e">>, j) THEN ParseOk(Bool(TRUE), j + 4)
    ELSE IF StartsWithAt(s, <<"f", "a", "l", "s", "e">>, j) THEN ParseOk(Bool(FALSE), j + 5)
    ELSE IF StartsWithAt(s, <<"n", "u", "l", "l">>, j) THEN ParseOk(Null, j + 4)
    ELSE ParseFail

\* After '{' or ',': "key" : value, then ',' or '}'.
ParseMembers(s, i, ms) ==
    LET j == SkipWs(s, i) IN
    IF j > Len(s) \/ s[j] # "\"" THEN ParseFail
    ELSE LET key == ParseString(s, j) IN
         IF ~key.ok THEN ParseFail
         ELSE LET c == SkipWs(s, key.pos) IN
              IF c > Len(s) \/ s[c] # ":" THEN ParseFail
              ELSE LET val == ParseValue(s, c + 1) IN
                   IF ~val.ok THEN ParseFail
                   ELSE LET e == SkipWs(s, val.pos)
                            ms2 == SetMember(ms, key.val.v, val.val)
                        IN  IF e > Len(s) THEN ParseFail
                            ELSE IF s[e] = "}" THEN ParseOk(Obj(ms2), e + 1)
                            ELSE IF s[e] = "," THEN ParseMembers(s, e + 1, ms2)
                            ELSE ParseFail

\* After '[' or ',': value, then ',' or ']'.
ParseElements(s, i, es) ==
    LET val == ParseValue(s, i) IN
    IF ~val.ok THEN ParseFail
    ELSE LET e == SkipWs(s, val.pos)
             es2 == Append(es, val.val)
         IN  IF e > Len(s) THEN ParseFail
             ELSE IF s[e] = "]" THEN ParseOk(Arr(es2), e + 1)
             ELSE IF s[e] = "," THEN ParseElements(s, e + 1, es2)
             ELSE ParseFail

\* JSON.parse(text): [ok |-> FALSE] stands for the SyntaxError it throws.
JsonParse(text) ==
    LET r == ParseValue(text, 1) IN
    IF r.ok /\ SkipWs(text, r.pos) > Len(text)
    THEN [ok |-> TRUE, val |-> r.val]
    ELSE [ok |-> FALSE, val |-> Undefined]

(***************************************************************************)
(* parseJsonStream: the body of its for-await loop, from yield to yield.   *)
(***************************************************************************)

\* The inner for loop: the first i > start at which braceCount is back at 0;
\* 0 stands for end = -1.
RECURSIVE FindEnd(_, _, _, _)
FindEnd(buffer, start, i, braceCount) ==
    IF i > Len(buffer) THEN 0
    ELSE LET c == IF buffer[i] = "{" THEN braceCount + 1
                  ELSE IF buffer[i] = "}" THEN braceCount - 1
                  ELSE braceCount
         IN  IF c = 0 /\ i > start THEN i
             ELSE FindEnd(buffer, start, i + 1, c)

\* The outcome of the while loop up to its next yield: found is FALSE when
\* the loop is left without one, else val is the value and end the position
\* of the closing brace of its span.
NoYield == [found |-> FALSE, end |-> 0, val |-> Undefined]

\* NextYield with a slip: when no closing brace is found it goes on from the
\* next opening brace instead of leaving the while loop.
RECURSIVE NextYieldSkipping(_, _)
NextYieldSkipping(buffer, start) ==
    IF start = 0 THEN NoYield
    ELSE LET end == FindEnd(buffer, start, start, 0) IN
         IF end = 0 THEN NextYieldSkipping(buffer, IndexOfFrom(buffer, "{", start + 1))
         ELSE LET parsed == JsonParse(SubSeq(buffer, start, end)) IN
              IF parsed.ok
              THEN [found |-> TRUE, end |-> end, val |-> parsed.val]
              ELSE NextYieldSkipping(buffer, IndexOfFrom(buffer, "{", start + 1))

\* The while loop from a given start up to the yield of line 131, where the
\* generator is suspended with the buffer not yet cut, or to its exit.
RECURSIVE NextYield(_, _)
NextYield(buffer, start) ==
    IF start = 0 THEN NoYield
    ELSE LET end == FindEnd(buffer, start, start, 0) IN
         IF end = 0 THEN NoYield
         ELSE LET parsed == JsonParse(SubSeq(buffer, start, end)) IN
              IF parsed.ok
              THEN [found |-> TRUE, end |-> end, val |-> parsed.val]
              ELSE NextYield(buffer, IndexOfFrom(buffer, "{", start + 1))

\* buffer.indexOf('{').
FirstBrace(buffer) == IndexOfFrom(buffer, "{", 1)

\* CutSpan with a slip: a parsed span is not cut from the buffer.
CutSpanKeeping(buffer, end) == buffer

\* buffer = buffer.substring(end + 1), when the generator is resumed.
CutSpan(buffer, end) == Substring(buffer, end + 1)

\* Buffered with a slip: the buffer is not carried from chunk to chunk.
BufferedForgetting(buffer, text) == text

\* buffer += text.
Buffered(buffer, text) == buffer \o text

\* The while loop run from a given start to its exit, every yield resumed at
\* once: the buffer left and the values yielded.
RECURSIVE ScanFrom(_, _, _), ScanAfter(_, _, _), ScanRest(_, _)
ScanFrom(buffer, start, yielded) == ScanAfter(buffer, NextYield(buffer, start), yielded)
ScanAfter(buffer, y, yielded) ==
    IF y.found THEN ScanRest(CutSpan(buffer, y.end), Append(yielded, y.val))
    ELSE [buffer |-> buffer, yielded |-> yielded]
ScanRest(rest, yielded) == ScanFrom(rest, FirstBrace(rest), yielded)

\* One chunk run to the end of the while loop.
ParseChunk(buffer, text) == ScanRest(Buffered(buffer, text), <<>>)

(***************************************************************************)
(* A run of parseJsonStream over one stream: the stream's text is a        *)
(* concatenation of pieces, delivered in chunks cut at any position.       *)
(***************************************************************************)

MaxPieces == 3
MaxChunkLen == 3

\* Well-formed objects with no brace inside a string literal.
PlainObjects == {"empty", "nested", "str"}
\* Well-formed objects holding a brace inside a string literal.
BraceInStringObjects == {"closeInStr"}
WellFormedObjects == PlainObjects \cup BraceInStringObjects
\* A brace opened and never closed; a stray closing brace; balanced spans
\* that are not JSON.
MalformedObjects == {"unclosed", "stray", "invalid", "invalidNested"}
\* Partial objects: cut after a nested object, cut inside a string literal,
\* and one whose string literal holds a closing brace.
PlainPartialObjects == {"unclosed", "cutInString"}
PartialObjects == PlainPartialObjects \cup {"partialBraceInStr"}
Separators == {"newline"}
PieceNames == WellFormedObjects \cup MalformedObjects \cup PartialObjects \cup Separators

PieceText(p) ==
    CASE p = "empty"   -> <<"{", "}">>
      [] p = "nested"  -> <<"{", "\"", "a", "\"", ":", "{", "\"", "b", "\"", ":", "1", "}", "}">>
      [] p = "str"     -> <<"{", "\"", "s", "\"", ":", "\"", "x", " ", "y", "\"", "}">>
      [] p = "closeInStr" -> <<"{", "\"", "s", "\"", ":", "\"", "}", "\"", "}">>
      [] p = "unclosed"   -> <<"{", "\"", "a", "\"", ":", "{", "}">>
      [] p = "cutInString" -> <<"{", "\"", "s", "\"", ":", "\"", "x">>
      [] p = "stray"      -> <<"}">>
      [] p = "invalid"    -> <<"{", "a", "}">>
      [] p = "invalidNested" -> <<"{", "a", "{", "}", "}">>
      [] p = "partialBraceInStr" ->
            <<"{", "\"", "s", "\"", ":", "\"", "}", "\"", ",", "\"", "b", "\"", ":", "{", "}">>
      [] p = "newline"    -> <<"\n">>

PiecesText(ps) == Concat([n \in 1..Len(ps) |-> PieceText(ps[n])])

(***************************************************************************)
(* extractJson.                                                            *)
(***************************************************************************)

\* The backquote character, which a TLA+ string cannot hold.
Backquote == "BACKQUOTE"
Fence == <<Backquote, Backquote, Backquote>>
JsonFence == Fence \o <<"j", "s", "o", "n">>

NoMatch == [found |-> FALSE, whole |-> <<>>, group |-> <<>>]

\* text.match of the fenced-block pattern (three backquotes, json, a lazy
\* group, three backquotes): the first opening fence and the nearest closing
\* fence after it.
FenceMatch(text) ==
    LET open == FindFrom(text, JsonFence, 1)
        close == IF open = 0 THEN 0 ELSE FindFrom(text, Fence, open + Len(JsonFence))
    IN  IF open = 0 \/ close = 0 THEN NoMatch
        ELSE [found |-> TRUE,
              whole |-> SubSeq(text, open, close + Len(Fence) - 1),
              group |-> SubSeq(text, open + Len(JsonFence), close - 1)]

\* text.match of the bracket pattern (a greedy group between brackets): the
\* first opening bracket and the last closing bracket after it.
ArrayMatch(text) ==
    LET open == IndexOfFrom(text, "[", 1)
        close == LastIndexOfUpTo(text, "]", Len(text))
    IN  IF open = 0 \/ close <= open THEN NoMatch
        ELSE [found |-> TRUE,
              whole |-> SubSeq(text, open, close),
              group |-> SubSeq(text, open + 1, close - 1)]

\* match[1] || match[0]: an empty group is falsy.
MatchCandidate(match) == IF match.group # <<>> THEN match.group ELSE match.whole

\* extractJson(text); Null stands for the null it returns on failure.
extractJson(text) ==
    LET raw == JsonParse(text) IN
    IF raw.ok THEN raw.val
    ELSE LET fence == FenceMatch(text)
             match == IF fence.found THEN fence ELSE ArrayMatch(text)
         IN  IF match.found
             THEN LET inner == JsonParse(MatchCandidate(match)) IN
                  IF inner.ok THEN inner.val ELSE Null
             ELSE Null


(***************************************************************************)
(* The App component: values and pure helpers.                             *)
(***************************************************************************)

NumArtifacts == 3

\* focusedArtifactIndex === null.
NoFocus == -1

PlaceholderStyle == Str(<<"Designing...">>)
FallbackStyles ==
    <<Str(<<"Modern Clean">>), Str(<<"Futuristic Dark">>), Str(<<"Spatial Depth">>)>>
GenerationFailedHtml ==
    Str(<<"<div style=\"padding:20px; color:red\">Generation Failed</div>">>)

\* JavaScript truthiness of a value.
Truthy(v) ==
    CASE v.t = "str"  -> v.v # <<>>
      [] v.t = "num"  -> v.v # 0
      [] v.t = "bool" -> v.v
      [] v.t \in {"null", "undefined"} -> FALSE
      [] OTHER -> TRUE

\* obj[key]; Undefined when obj has no such member or is no object.
Member(obj, key) ==
    IF obj.t = "obj" /\ \E n \in 1..Len(obj.v) : obj.v[n].k = key
    THEN obj.v[CHOOSE n \in 1..Len(obj.v) : obj.v[n].k = key].val
    ELSE Undefined

\* String.prototype.trimStart, trimEnd, trim.
RECURSIVE TrimStart(_)
TrimStart(s) ==
    IF s # <<>> /\ Head(s) \in JsonWhitespace THEN TrimStart(Tail(s)) ELSE s

RECURSIVE TrimEnd(_)
TrimEnd(s) ==
    IF s # <<>> /\ s[Len(s)] \in JsonWhitespace
    THEN TrimEnd(SubSeq(s, 1, Len(s) - 1)) ELSE s

Trim(s) == TrimEnd(TrimStart(s))

EndsWith(s, p) == StartsWithAt(s, p, Len(s) - Len(p) + 1)

\* CleanHtml with a slip: a closing fence is left in place.
CleanHtmlKeepingFence(accumulatedHtml) ==
    LET t0 == Trim(accumulatedHtml)
        t1 == IF StartsWithAt(t0, Fence \o <<"h", "t", "m", "l">>, 1)
              THEN TrimStart(Substring(t0, 8)) ELSE t0
        t2 == IF StartsWithAt(t1, Fence, 1) THEN TrimStart(Substring(t1, 4)) ELSE t1
    IN  t2

\* generateArtifact's cleanup of the accumulated text.
CleanHtml(accumulatedHtml) ==
    LET t0 == Trim(accumulatedHtml)
        t1 == IF StartsWithAt(t0, Fence \o <<"h", "t", "m", "l">>, 1)
              THEN TrimStart(Substring(t0, 8)) ELSE t0
        t2 == IF StartsWithAt(t1, Fence, 1) THEN TrimStart(Substring(t1, 4)) ELSE t1
        t3 == IF EndsWith(t2, Fence) THEN TrimEnd(SubSeq(t2, 1, Len(t2) - 3)) ELSE t2
    IN  t3

\* finalHtml ? 'complete' : 'error'.
FinalStatus(finalHtml) == IF finalHtml # <<>> THEN "complete" ELSE "error"

\* PlaceholderArtifacts with a slip: the ordinal is left out of the ids.
PlaceholderArtifactsOneId(sessionId) ==
    [i \in 1..NumArtifacts |->
        [id |-> <<sessionId, 0>>, styleName |-> PlaceholderStyle,
         html |-> Str(<<>>), status |-> "streaming"]]

\* The placeholder artifacts and the session startGeneration builds.
PlaceholderArtifacts(sessionId) ==
    [i \in 1..NumArtifacts |->
        [id |-> <<sessionId, i - 1>>,
         styleName |-> PlaceholderStyle,
         html |-> Str(<<>>),
         status |-> "streaming"]]

NewSession(sessionId, basePrompt, answers) ==
    [id |-> sessionId,
     prompt |-> basePrompt,
     userAnswers |-> answers,
     artifacts |-> PlaceholderArtifacts(sessionId)]

\* {...art, ...patch}.
Patched(art, patch) ==
    [f \in DOMAIN art |-> IF f \in DOMAIN patch THEN patch[f] ELSE art[f]]

\* UpdateArtifact with a slip: every artifact of the session is patched.
UpdateArtifactOfAll(prev, sessionId, artifactId, patch) ==
    [s \in 1..Len(prev) |->
        IF prev[s].id = sessionId
        THEN [prev[s] EXCEPT !.artifacts =
                [a \in 1..Len(prev[s].artifacts) |-> Patched(prev[s].artifacts[a], patch)]]
        ELSE prev[s]]

\* The store write of generateArtifact: prev.map over the sessions, and over
\* the artifacts of the session whose id matches.
UpdateArtifact(prev, sessionId, artifactId, patch) ==
    [s \in 1..Len(prev) |->
        IF prev[s].id = sessionId
        THEN [prev[s] EXCEPT !.artifacts =
                [a \in 1..Len(prev[s].artifacts) |->
                    IF prev[s].artifacts[a].id = artifactId
                    THEN Patched(prev[s].artifacts[a], patch)
                    ELSE prev[s].artifacts[a]]]
        ELSE prev[s]]

\* Accumulate with a slip: = in place of +=.
AccumulateReplacing(accumulatedHtml, text) == text

\* accumulatedHtml += text.
Accumulate(accumulatedHtml, text) == accumulatedHtml \o text

\* FailArtifact with a slip: the failure marks the whole session.
FailArtifactOfAll(prev, sessionId, artifactId) ==
    [s \in 1..Len(prev) |->
        IF prev[s].id = sessionId
        THEN [prev[s] EXCEPT !.artifacts =
                [a \in 1..Len(prev[s].artifacts) |->
                    Patched(prev[s].artifacts[a],
                            [html |-> GenerationFailedHtml, status |-> "error"])]]
        ELSE prev[s]]

\* The write in generateArtifact's catch block.
FailArtifact(prev, sessionId, artifactId) ==
    UpdateArtifact(prev, sessionId, artifactId,
                   [html |-> GenerationFailedHtml, status |-> "error"])

\* ApplyStyles with a slip: the labels are dealt from the last to the first.
ApplyStylesReversed(prev, sessionId, generatedStyles) ==
    [s \in 1..Len(prev) |->
        IF prev[s].id = sessionId
        THEN [prev[s] EXCEPT !.artifacts =
                [a \in 1..Len(prev[s].artifacts) |->
                    [prev[s].artifacts[a] EXCEPT !.styleName =
                        IF a <= Len(generatedStyles)
                        THEN generatedStyles[Len(generatedStyles) + 1 - a]
                        ELSE Undefined]]]
        ELSE prev[s]]

\* The label write of startGeneration.
ApplyStyles(prev, sessionId, generatedStyles) ==
    [s \in 1..Len(prev) |->
        IF prev[s].id = sessionId
        THEN [prev[s] EXCEPT !.artifacts =
                [a \in 1..Len(prev[s].artifacts) |->
                    [prev[s].artifacts[a] EXCEPT !.styleName =
                        IF a <= Len(generatedStyles) THEN generatedStyles[a] ELSE Undefined]]]
        ELSE prev[s]]

\* The write of applyVariation, by position.
ApplyVariationAt(prev, sessionIndex, artifactIndex, html) ==
    [s \in 1..Len(prev) |->
        IF s - 1 = sessionIndex
        THEN [prev[s] EXCEPT !.artifacts =
                [a \in 1..Len(prev[s].artifacts) |->
                    IF a - 1 = artifactIndex
                    THEN Patched(prev[s].artifacts[a], [html |-> html, status |-> "complete"])
                    ELSE prev[s].artifacts[a]]]
        ELSE prev[s]]

\* value.length: a number for arrays and strings, else undefined (-1).
LengthOf(v) == IF v.t \in {"arr", "str"} THEN Len(v.v) ELSE -1

\* generatedStyles.slice(0, 3): ok is FALSE where slice is no function and
\* the TypeError leaves the try block.
SliceStyles(generatedStyles) ==
    IF generatedStyles.t = "arr"
    THEN [ok |-> TRUE, styles |-> SubSeq(generatedStyles.v, 1, 3)]
    ELSE IF generatedStyles.t = "str"
    THEN [ok |-> TRUE, styles |-> [k \in 1..3 |-> Str(<<generatedStyles.v[k]>>)]]
    ELSE [ok |-> FALSE, styles |-> <<>>]

\* The fallback list when fewer than 3 labels came back.
PadStyles(generatedStyles) ==
    IF LengthOf(generatedStyles) # -1 /\ LengthOf(generatedStyles) < 3
    THEN Arr(FallbackStyles)
    ELSE generatedStyles

\* value || [].
OrEmptyList(value) == IF Truthy(value) THEN value ELSE Arr(<<>>)

\* The planning result: extractJson(text) || [], the fallback when its length
\* is below 3, then slice(0, 3).
PlanStyles(text) == SliceStyles(PadStyles(OrEmptyList(extractJson(text))))

\* response.text || '[]'.
TextOrEmptyList(text) == IF text = <<>> THEN <<"[", "]">> ELSE text

\* Array.isArray(questions) && questions.length > 0.
UsableQuestions(questions) == questions.t = "arr" /\ Len(questions.v) > 0

\* IsVariation with a slip: the html is not looked at.
IsVariationByName(variation) == Truthy(Member(variation, <<"name">>))

\* variation.name && variation.html.
IsVariation(variation) ==
    Truthy(Member(variation, <<"name">>)) /\ Truthy(Member(variation, <<"html">>))

\* The records handleGenerateVariations appends for the values one chunk yields.
NewVariations(values) ==
    LET kept == SelectSeq(values, IsVariation) IN
    [n \in 1..Len(kept) |->
        [name |-> Member(kept[n], <<"name">>), html |-> Member(kept[n], <<"html">>)]]

(***************************************************************************)
(* State of a decoder run and of an extractor call.                        *)
(***************************************************************************)

VARIABLES
    pieces,          \* the pieces the stream's text is made of
    responseStream,  \* the text the stream has not delivered yet
    buffer,          \* parseJsonStream's buffer
    yielded,         \* the values parseJsonStream has yielded so far
    yieldEnd,        \* the generator is suspended at its yield: the end of the
                     \* span in the buffer, which is not cut yet; else 0
    streamEnded,     \* the for-await loop has seen the end of the stream
    splitInString    \* some chunk boundary fell inside a string literal

decoderVars == <<pieces, responseStream, buffer, yielded, yieldEnd, streamEnded,
                 splitInString>>

VARIABLES
    parts,        \* the parts the text is made of
    extracted     \* <<>> before the call, <<value>> after it

extractVars == <<parts, extracted>>

(***************************************************************************)
(* The App component: state.                                               *)
(***************************************************************************)

\* Bounds of the runs: the submissions a user makes, the text fragments the
\* generation streams deliver in all (in a generation run, in a run of two
\* submissions and in a whole-app run), the variation requests and the chunks
\* one variation stream delivers (in a run about variations, MaxStreamChunks);
\* the submissions of a run about the session pointer.
MaxSessions == 2
MaxFragments == 4
MaxSessionsFragments == 1
MaxAppFragments == 1
MaxVariationRequests == 1
MaxVariationChunks == 1
MaxStreamChunks == 3
MaxPointerSessions == 3

VARIABLES
    apiKeyConfigured,      \* process.env.API_KEY is set
    sessions,              \* useState<Session[]>
    currentSessionIndex,   \* useState<number>, 0-based as in the source
    focusedArtifactIndex,  \* useState<number | null>; NoFocus stands for null
    selectedStyles,        \* useState<string[]>, as a set
    isLoading,             \* useState<boolean>
    refinementQuestions,   \* useState<RefinementQuestion[] | null>
    pendingPrompt,         \* useState<string | null>
    userAnswers,           \* useState<Record<string, string>>, as <<id, answer>> pairs
    componentVariations,   \* useState<ComponentVariation[]>
    drawerState,           \* useState of the side drawer: isOpen, mode, data
    capturedSessionsLength,\* sessions.length as the memoised startGeneration sees it
    submissions,           \* handleInitialSubmit calls awaiting the clarification response
    generations,           \* startGeneration calls, one per session, with their 3 tasks
    variationRuns,         \* handleGenerateVariations calls awaiting their stream
    submitCount,           \* submissions made so far
    variationRequestCount, \* variation requests made so far
    variationApplied,      \* ids of the artifacts applyVariation has written
    limits                 \* what the user and the remote model do at most in this run

appVars == <<apiKeyConfigured, sessions, currentSessionIndex, focusedArtifactIndex,
             selectedStyles, isLoading, refinementQuestions, pendingPrompt, userAnswers,
             componentVariations, drawerState, capturedSessionsLength, submissions,
             generations, variationRuns, submitCount, variationRequestCount,
             variationApplied, limits>>

vars == <<decoderVars, extractVars, appVars>>

\* The text delivered so far.
Delivered == SubSeq(PiecesText(pieces), 1, Len(PiecesText(pieces)) - Len(responseStream))

QuoteCount(s) == Cardinality({k \in 1..Len(s) : s[k] = "\""})

DecoderIdle ==
    /\ pieces = <<>>
    /\ responseStream = <<>>
    /\ buffer = <<>>
    /\ yielded = <<>>
    /\ yieldEnd = 0
    /\ streamEnded = TRUE
    /\ splitInString = FALSE

DecoderInit ==
    /\ pieces \in UNION {[1..n -> PieceNames] : n \in 0..MaxPieces}
    /\ responseStream = PiecesText(pieces)
    /\ buffer = <<>>
    /\ yielded = <<>>
    /\ yieldEnd = 0
    /\ streamEnded = FALSE
    /\ splitInString = FALSE

\* The lengths the next chunk may have: short, or all that is left.
ChunkLengths == {n \in 0..Len(responseStream) : n <= MaxChunkLen \/ n = Len(responseStream)}

\* The generator runs on to its next yield, where the value reaches the
\* consumer, or leaves the while loop and awaits the next chunk.
ScanOn(y) ==
    /\ yielded' = IF y.found THEN Append(yielded, y.val) ELSE yielded
    /\ yieldEnd' = y.end

\* A chunk holding the next n characters arrives: buffer += text, then the
\* while loop up to its first yield.
DecodeChunk ==
    /\ ~streamEnded
    /\ yieldEnd = 0
    /\ \E n \in ChunkLengths :
        LET text == SubSeq(responseStream, 1, n) IN
            /\ responseStream' = Substring(responseStream, n + 1)
            /\ buffer' = Buffered(buffer, text)
            /\ ScanOn(NextYield(Buffered(buffer, text), FirstBrace(Buffered(buffer, text))))
            /\ splitInString' =
                 (splitInString \/ (n < Len(responseStream)
                                     /\ QuoteCount(Delivered \o text) % 2 = 1))
    /\ UNCHANGED <<pieces, streamEnded>>
    /\ UNCHANGED <<extractVars, appVars>>

\* The consumer asks for the next value: the generator resumes after its
\* yield, cuts the span from the buffer and goes on with the while loop.
DecodeResume ==
    /\ yieldEnd # 0
    /\ buffer' = CutSpan(buffer, yieldEnd)
    /\ ScanOn(NextYield(CutSpan(buffer, yieldEnd), FirstBrace(CutSpan(buffer, yieldEnd))))
    /\ UNCHANGED <<pieces, responseStream, streamEnded, splitInString>>
    /\ UNCHANGED <<extractVars, appVars>>

\* A chunk whose text is not a string: the loop continues with the next one.
DecodeNonTextChunk ==
    /\ ~streamEnded
    /\ yieldEnd = 0
    /\ UNCHANGED <<decoderVars, extractVars, appVars>>

\* The stream ends: the loop and the generator return.
DecodeEnd ==
    /\ ~streamEnded
    /\ yieldEnd = 0
    /\ responseStream = <<>>
    /\ streamEnded' = TRUE
    /\ UNCHANGED <<pieces, responseStream, buffer, yielded, yieldEnd, splitInString>>
    /\ UNCHANGED <<extractVars, appVars>>

(***************************************************************************)
(* A call of extractJson on a text made of parts.                          *)
(***************************************************************************)

MaxParts == 2

PartNames == {"object", "labels", "emptyArray", "nestedArray", "number",
              "word", "fencedArray", "fencedWord", "emptyFence"}

PartText(p) ==
    CASE p = "object"      -> <<"{", "\"", "a", "\"", ":", "1", "}">>
      [] p = "labels"      -> <<"[", "\"", "A", "\"", ",", "\"", "B", "\"", ",", "\"", "C", "\"", "]">>
      [] p = "emptyArray"  -> <<"[", "]">>
      [] p = "nestedArray" -> <<"[", "[", "1", ",", "2", "]", "]">>
      [] p = "number"      -> <<"7">>
      [] p = "word"        -> <<" ", "x", " ">>
      [] p = "fencedArray" -> JsonFence \o <<"\n", "[", "1", ",", "2", "]", "\n">> \o Fence
      [] p = "fencedWord"  -> JsonFence \o <<" ", "x", " ">> \o Fence
      [] p = "emptyFence"  -> JsonFence \o Fence

PartsText(ps) == Concat([n \in 1..Len(ps) |-> PartText(ps[n])])

ExtractIdle ==
    /\ parts = <<>>
    /\ extracted = <<Null>>

ExtractInit ==
    /\ parts \in UNION {[1..n -> PartNames] : n \in 0..MaxParts}
    /\ extracted = <<>>

ExtractCall ==
    /\ extracted = <<>>
    /\ extracted' = <<extractJson(PartsText(parts))>>
    /\ UNCHANGED parts
    /\ UNCHANGED <<decoderVars, appVars>>


(***************************************************************************)
(* The App component: the inputs drawn for the user and the remote model.  *)
(***************************************************************************)

Prompts == {<<"c", "a", "r", "d">>}
StylePresets == {"Cyberpunk"}

Quoted(atom) == <<"\"", atom, "\"">>

\* [{"id":"q1","text":"Q","options":["A"]}]
QuestionsText ==
    <<"[", "{">> \o Quoted("id") \o <<":">> \o Quoted("q1") \o <<",">>
    \o Quoted("text") \o <<":">> \o Quoted("Q") \o <<",">>
    \o Quoted("options") \o <<":", "[">> \o Quoted("A") \o <<"]", "}", "]">>

\* What the clarification call may answer: questions, an empty list, a list
\* holding no question, a value that is no list, text that is no JSON, no text.
ClarifyResponses ==
    { QuestionsText,
      <<"[", "]">>,
      <<"[", "1", "]">>,
      <<"{", "}">>,
      <<"n", "o">>,
      <<>> }

\* What the planning call may answer: one label, four labels, a number.
PlanResponses ==
    { <<"[">> \o Quoted("A") \o <<"]">>,
      <<"[">> \o Quoted("A") \o <<",">> \o Quoted("B") \o <<",">> \o Quoted("C")
             \o <<",">> \o Quoted("D") \o <<"]">>,
      <<"7">> }

\* The k-th text fragment of a generation stream: an opening html fence and
\* a paragraph, its end and a closing fence, then blanks.
FragmentAt(k) ==
    IF k = 1 THEN Fence \o <<"h", "t", "m", "l", "\n", "<p>">>
    ELSE IF k = 2 THEN <<"</p>", "\n">> \o Fence
    ELSE <<" ">>

\* {"name":"N","html":"H"} whole, and cut in two inside the html string.
VariationHead ==
    <<"{">> \o Quoted("name") \o <<":">> \o Quoted("N") \o <<",">>
    \o Quoted("html") \o <<":", "\"">>
VariationTail == <<"H", "\"", "}">>
VariationChunks == {VariationHead \o VariationTail, VariationHead, VariationTail}

\* More chunks of a variation stream: a second variation {"name":"M","html":"G"},
\* a record with no html {"name":"M"}, both in one chunk, and the two
\* variations in one chunk.
SecondVariation ==
    <<"{">> \o Quoted("name") \o <<":">> \o Quoted("M") \o <<",">>
    \o Quoted("html") \o <<":">> \o Quoted("G") \o <<"}">>
NamelessOrHtmlless == <<"{">> \o Quoted("name") \o <<":">> \o Quoted("M") \o <<"}">>
VariationStreamChunks ==
    VariationChunks \cup {SecondVariation, NamelessOrHtmlless,
                          NamelessOrHtmlless \o <<"\n">> \o SecondVariation,
                          SecondVariation \o VariationHead \o VariationTail}

\* The most records one chunk of VariationStreamChunks holds.
MaxChunkRecords == 2

\* A value React renders as a child: anything but an object, and a list only
\* when each of its elements is one.
RECURSIVE ReactChild(_)
ReactChild(v) ==
    IF v.t = "obj" THEN FALSE
    ELSE IF v.t = "arr" THEN \A n \in 1..Len(v.v) : ReactChild(v.v[n])
    ELSE TRUE

\* The render of one question throws: q.id of null, q.options.map where
\* options is no list, or a text or an option that is no React child.
QuestionThrows(q) ==
    \/ q.t \in {"null", "undefined"}
    \/ Member(q, <<"options">>).t # "arr"
    \/ ~ReactChild(Member(q, <<"text">>))
    \/ \E o \in 1..Len(Member(q, <<"options">>).v) :
           ~ReactChild(Member(q, <<"options">>).v[o])

\* The render of the questionnaire overlay throws for the questions stored.
RenderThrows ==
    /\ refinementQuestions.t = "arr"
    /\ \E n \in 1..Len(refinementQuestions.v) : QuestionThrows(refinementQuestions.v[n])

\* The App is on display: no render has thrown. Once one has, nothing is
\* rendered, no handler can be reached and no callback changes the state.
Mounted == ~RenderThrows

\* The question ids and options of the chips on display: none when the
\* render throws.
QuestionChoices ==
    IF refinementQuestions.t # "arr" \/ RenderThrows THEN {}
    ELSE UNION { LET q == refinementQuestions.v[n]
                     opts == Member(q, <<"options">>)
                 IN  {<<Member(q, <<"id">>), opts.v[o]>> : o \in 1..Len(opts.v)}
               : n \in 1..Len(refinementQuestions.v) }

RemoveAt(seq, k) == SubSeq(seq, 1, k - 1) \o SubSeq(seq, k + 1, Len(seq))

(***************************************************************************)
(* The App component: handlers and the steps of their async functions.     *)
(***************************************************************************)

\* generateId(): an id no earlier session holds.
generateId == Len(sessions) + 1

IdleTasks == [j \in 1..NumArtifacts |-> [pc |-> "idle", accumulatedHtml |-> <<>>, fragments |-> 0]]

\* StartGeneration with a slip: the pointer is set one past the length read.
StartGenerationPastEnd(basePrompt, answers, capturedLength) ==
    /\ sessions' = Append(sessions, NewSession(generateId, basePrompt, answers))
    /\ currentSessionIndex' = capturedLength + 1
    /\ focusedArtifactIndex' = NoFocus
    /\ isLoading' = apiKeyConfigured
    /\ pendingPrompt' = IF apiKeyConfigured THEN pendingPrompt ELSE Null
    /\ generations' = Append(generations,
            [sessionId |-> generateId,
             pc |-> IF apiKeyConfigured THEN "planning" ELSE "done",
             styleResponse |-> <<>>,
             tasks |-> IdleTasks])

\* startGeneration up to its first await.  Without an API key the try block
\* throws at once and the finally block runs in the same step.
StartGeneration(basePrompt, answers, capturedLength) ==
    /\ sessions' = Append(sessions, NewSession(generateId, basePrompt, answers))
    /\ currentSessionIndex' = capturedLength
    /\ focusedArtifactIndex' = NoFocus
    /\ isLoading' = apiKeyConfigured
    /\ pendingPrompt' = IF apiKeyConfigured THEN pendingPrompt ELSE Null
    /\ generations' = Append(generations,
            [sessionId |-> generateId,
             pc |-> IF apiKeyConfigured THEN "planning" ELSE "done",
             styleResponse |-> <<>>,
             tasks |-> IdleTasks])

\* toggleStyle; the next render memoises a new startGeneration.
ToggleStyle(style) ==
    /\ Mounted
    /\ selectedStyles' = IF style \in selectedStyles
                         THEN selectedStyles \ {style}
                         ELSE selectedStyles \cup {style}
    /\ capturedSessionsLength' = Len(sessions)
    /\ UNCHANGED <<apiKeyConfigured, sessions, currentSessionIndex, focusedArtifactIndex,
                   isLoading, refinementQuestions, pendingPrompt, userAnswers,
                   componentVariations, drawerState, submissions, generations,
                   variationRuns, submitCount, variationRequestCount, variationApplied>>
    /\ UNCHANGED <<decoderVars, extractVars, limits>>

\* handleInitialSubmit up to its await.
HandleInitialSubmit(prompt) ==
    /\ Mounted
    /\ ~isLoading
    /\ submitCount < limits.submissions
    /\ submitCount' = submitCount + 1
    /\ IF apiKeyConfigured
       THEN /\ isLoading' = TRUE
            /\ pendingPrompt' = Str(prompt)
            /\ submissions' = Append(submissions,
                    [prompt |-> prompt, capturedLength |-> capturedSessionsLength])
            /\ UNCHANGED <<sessions, currentSessionIndex, focusedArtifactIndex, generations>>
       ELSE /\ StartGeneration(prompt, {}, capturedSessionsLength)
            /\ UNCHANGED submissions
    /\ UNCHANGED <<apiKeyConfigured, selectedStyles, refinementQuestions, userAnswers,
                   componentVariations, drawerState, capturedSessionsLength,
                   variationRuns, variationRequestCount, variationApplied>>
    /\ UNCHANGED <<decoderVars, extractVars, limits>>

\* handleInitialSubmit after its await: the clarification call answered.
ClarifyReturn(k, text) ==
    /\ Mounted
    /\ k \in 1..Len(submissions)
    /\ submissions' = RemoveAt(submissions, k)
    /\ LET questions == extractJson(TextOrEmptyList(text)) IN
       IF UsableQuestions(questions)
       THEN /\ refinementQuestions' = questions
            /\ userAnswers' = {}
            /\ isLoading' = FALSE
            /\ UNCHANGED <<sessions, currentSessionIndex, focusedArtifactIndex,
                           pendingPrompt, generations>>
       ELSE /\ StartGeneration(submissions[k].prompt, {}, submissions[k].capturedLength)
            /\ UNCHANGED <<refinementQuestions, userAnswers>>
    /\ UNCHANGED <<apiKeyConfigured, selectedStyles, componentVariations, drawerState,
                   capturedSessionsLength, variationRuns, submitCount,
                   variationRequestCount, variationApplied>>
    /\ UNCHANGED <<decoderVars, extractVars, limits>>

\* handleInitialSubmit after its await: the clarification call threw.
ClarifyThrow(k) ==
    /\ Mounted
    /\ k \in 1..Len(submissions)
    /\ submissions' = RemoveAt(submissions, k)
    /\ StartGeneration(submissions[k].prompt, {}, submissions[k].capturedLength)
    /\ UNCHANGED <<apiKeyConfigured, selectedStyles, refinementQuestions, userAnswers,
                   componentVariations, drawerState, capturedSessionsLength,
                   variationRuns, submitCount, variationRequestCount, variationApplied>>
    /\ UNCHANGED <<decoderVars, extractVars, limits>>

\* handleAnswerSelect, on an option of a question on display.
HandleAnswerSelect(choice) ==
    /\ Mounted
    /\ refinementQuestions # Null
    /\ choice \in QuestionChoices
    /\ userAnswers' = {p \in userAnswers : p[1] # choice[1]} \cup {choice}
    /\ UNCHANGED <<apiKeyConfigured, sessions, currentSessionIndex, focusedArtifactIndex,
                   selectedStyles, isLoading, refinementQuestions, pendingPrompt,
                   componentVariations, drawerState, capturedSessionsLength, submissions,
                   generations, variationRuns, submitCount, variationRequestCount,
                   variationApplied>>
    /\ UNCHANGED <<decoderVars, extractVars, limits>>

\* handleFinalizeGeneration, from either button of the questionnaire.
HandleFinalizeGeneration ==
    /\ Mounted
    /\ refinementQuestions # Null
    /\ IF pendingPrompt # Null
       THEN /\ refinementQuestions' = Null
            /\ StartGeneration(pendingPrompt.v, userAnswers, capturedSessionsLength)
       ELSE UNCHANGED <<refinementQuestions, sessions, currentSessionIndex,
                        focusedArtifactIndex, isLoading, pendingPrompt, generations>>
    /\ UNCHANGED <<apiKeyConfigured, selectedStyles, userAnswers, componentVariations,
                   drawerState, capturedSessionsLength, submissions, variationRuns,
                   submitCount, variationRequestCount, variationApplied>>
    /\ UNCHANGED <<decoderVars, extractVars, limits>>

\* startGeneration after the planning call answered: the labels are applied
\* and the 3 generateArtifact tasks run up to their await; or the TypeError
\* of slice ends the call through its catch and finally blocks.
PlanReturn(i, text) ==
    /\ Mounted
    /\ i \in 1..Len(generations)
    /\ generations[i].pc = "planning"
    /\ LET plan == PlanStyles(TextOrEmptyList(text)) IN
       IF plan.ok
       THEN /\ sessions' = ApplyStyles(sessions, generations[i].sessionId, plan.styles)
            /\ generations' = [generations EXCEPT ![i] =
                    [@ EXCEPT !.pc = "streaming",
                              !.styleResponse = <<text>>,
                              !.tasks = [j \in 1..NumArtifacts |->
                                  [pc |-> "streaming", accumulatedHtml |-> <<>>, fragments |-> 0]]]]
            /\ UNCHANGED <<isLoading, pendingPrompt>>
       ELSE /\ generations' = [generations EXCEPT ![i] =
                    [@ EXCEPT !.pc = "done", !.styleResponse = <<text>>]]
            /\ isLoading' = FALSE
            /\ pendingPrompt' = Null
            /\ UNCHANGED sessions
    /\ UNCHANGED <<apiKeyConfigured, currentSessionIndex, focusedArtifactIndex,
                   selectedStyles, refinementQuestions, userAnswers, componentVariations,
                   drawerState, capturedSessionsLength, submissions, variationRuns,
                   submitCount, variationRequestCount, variationApplied>>
    /\ UNCHANGED <<decoderVars, extractVars, limits>>

\* startGeneration after the planning call threw: catch, then finally.
PlanThrow(i) ==
    /\ Mounted
    /\ i \in 1..Len(generations)
    /\ generations[i].pc = "planning"
    /\ generations' = [generations EXCEPT ![i].pc = "done"]
    /\ isLoading' = FALSE
    /\ pendingPrompt' = Null
    /\ UNCHANGED <<apiKeyConfigured, sessions, currentSessionIndex, focusedArtifactIndex,
                   selectedStyles, refinementQuestions, userAnswers, componentVariations,
                   drawerState, capturedSessionsLength, submissions, variationRuns,
                   submitCount, variationRequestCount, variationApplied>>
    /\ UNCHANGED <<decoderVars, extractVars, limits>>

\* The text fragments the streams of gens have delivered.
RECURSIVE FragmentCount(_)
FragmentCount(gens) ==
    IF gens = <<>> THEN 0
    ELSE gens[1].tasks[1].fragments + gens[1].tasks[2].fragments
         + gens[1].tasks[3].fragments + FragmentCount(Tail(gens))

TaskStreaming(i, j) ==
    /\ i \in 1..Len(generations)
    /\ j \in 1..NumArtifacts
    /\ generations[i].tasks[j].pc = "streaming"

ArtifactIdOf(i, j) == <<generations[i].sessionId, j - 1>>

\* generateArtifact: one text chunk of its stream.
TaskChunk(i, j) ==
    /\ Mounted
    /\ TaskStreaming(i, j)
    /\ FragmentCount(generations) < limits.fragments
    /\ LET task == generations[i].tasks[j]
           accumulatedHtml == Accumulate(task.accumulatedHtml, FragmentAt(task.fragments + 1))
       IN  /\ sessions' = UpdateArtifact(sessions, generations[i].sessionId, ArtifactIdOf(i, j),
                                         [html |-> Str(accumulatedHtml)])
           /\ generations' = [generations EXCEPT ![i].tasks[j] =
                   [@ EXCEPT !.accumulatedHtml = accumulatedHtml,
                             !.fragments = task.fragments + 1]]
    /\ UNCHANGED <<apiKeyConfigured, currentSessionIndex, focusedArtifactIndex,
                   selectedStyles, isLoading, refinementQuestions, pendingPrompt,
                   userAnswers, componentVariations, drawerState, capturedSessionsLength,
                   submissions, variationRuns, submitCount, variationRequestCount,
                   variationApplied>>
    /\ UNCHANGED <<decoderVars, extractVars, limits>>

\* generateArtifact: a chunk whose text is no string.
TaskNonTextChunk(i, j) ==
    /\ Mounted
    /\ TaskStreaming(i, j)
    /\ UNCHANGED <<decoderVars, extractVars, appVars>>

\* generateArtifact returns: its task has stopped with pc.
TaskStops(i, j, pc) ==
    generations' = [generations EXCEPT ![i].tasks[j].pc = pc]

\* generateArtifact: its stream ended.
TaskEnd(i, j) ==
    /\ Mounted
    /\ TaskStreaming(i, j)
    /\ LET finalHtml == CleanHtml(generations[i].tasks[j].accumulatedHtml) IN
       sessions' = UpdateArtifact(sessions, generations[i].sessionId, ArtifactIdOf(i, j),
                                  [html |-> Str(finalHtml), status |-> FinalStatus(finalHtml)])
    /\ TaskStops(i, j, "ended")
    /\ UNCHANGED <<apiKeyConfigured, currentSessionIndex, focusedArtifactIndex,
                   selectedStyles, isLoading, refinementQuestions, pendingPrompt,
                   userAnswers, componentVariations, drawerState, capturedSessionsLength,
                   submissions, variationRuns, submitCount, variationRequestCount,
                   variationApplied>>
    /\ UNCHANGED <<decoderVars, extractVars, limits>>

\* generateArtifact: opening or reading its stream threw.
TaskThrow(i, j) ==
    /\ Mounted
    /\ TaskStreaming(i, j)
    /\ sessions' = FailArtifact(sessions, generations[i].sessionId, ArtifactIdOf(i, j))
    /\ TaskStops(i, j, "failed")
    /\ UNCHANGED <<apiKeyConfigured, currentSessionIndex, focusedArtifactIndex,
                   selectedStyles, isLoading, refinementQuestions, pendingPrompt,
                   userAnswers, componentVariations, drawerState, capturedSessionsLength,
                   submissions, variationRuns, submitCount, variationRequestCount,
                   variationApplied>>
    /\ UNCHANGED <<decoderVars, extractVars, limits>>

\* Promise.all has the 3 tasks of generation i.
Settled(tasks) == \A k \in 1..NumArtifacts : tasks[k].pc \in {"ended", "failed"}

\* startGeneration resumes after await Promise.all and runs its finally block.
StartGenerationFinally(i) ==
    /\ Mounted
    /\ i \in 1..Len(generations)
    /\ generations[i].pc = "streaming"
    /\ Settled(generations[i].tasks)
    /\ generations' = [generations EXCEPT ![i].pc = "done"]
    /\ isLoading' = FALSE
    /\ pendingPrompt' = Null
    /\ UNCHANGED <<apiKeyConfigured, sessions, currentSessionIndex, focusedArtifactIndex,
                   selectedStyles, refinementQuestions, userAnswers, componentVariations,
                   drawerState, capturedSessionsLength, submissions, variationRuns,
                   submitCount, variationRequestCount, variationApplied>>
    /\ UNCHANGED <<decoderVars, extractVars, limits>>

CurrentSessionExists == currentSessionIndex >= 0 /\ currentSessionIndex < Len(sessions)

\* handleGenerateVariations up to its await; without an API key the try
\* block throws at once and the finally block runs in the same step.
HandleGenerateVariations ==
    /\ Mounted
    /\ ~isLoading
    /\ CurrentSessionExists
    /\ focusedArtifactIndex # NoFocus
    /\ variationRequestCount < limits.variationRequests
    /\ variationRequestCount' = variationRequestCount + 1
    /\ isLoading' = apiKeyConfigured
    /\ componentVariations' = <<>>
    /\ drawerState' = [isOpen |-> TRUE, mode |-> "variations",
                       data |-> sessions[currentSessionIndex + 1]
                                    .artifacts[focusedArtifactIndex + 1].id]
    /\ variationRuns' = IF apiKeyConfigured
                        THEN Append(variationRuns,
                                    [buffer |-> <<>>, chunks |-> 0, stream |-> <<>>,
                                     yieldEnd |-> 0, variation |-> Undefined])
                        ELSE variationRuns
    /\ UNCHANGED <<apiKeyConfigured, sessions, currentSessionIndex, focusedArtifactIndex,
                   selectedStyles, refinementQuestions, pendingPrompt, userAnswers,
                   capturedSessionsLength, submissions, generations, submitCount,
                   variationApplied>>
    /\ UNCHANGED <<decoderVars, extractVars, limits>>

\* Run k with its decoder gone on in buffer b to its next yield y, where it
\* is suspended: the value yielded waits for the loop body.
VariationScanOn(k, b, y, chunks, stream) ==
    variationRuns' = [variationRuns EXCEPT ![k] =
        [buffer |-> b, chunks |-> chunks, stream |-> stream,
         yieldEnd |-> y.end, variation |-> y.val]]

\* handleGenerateVariations: a chunk of its stream arrives in parseJsonStream,
\* which adds it to the buffer and runs up to its first yield. The stream
\* field records the text the call has received so far, yieldEnd where its
\* decoder is suspended, variation the value it yielded there.
VariationChunk(k, text) ==
    /\ Mounted
    /\ k \in 1..Len(variationRuns)
    /\ variationRuns[k].yieldEnd = 0
    /\ variationRuns[k].chunks < limits.variationChunks
    /\ VariationScanOn(k, Buffered(variationRuns[k].buffer, text),
                       NextYield(Buffered(variationRuns[k].buffer, text),
                                 FirstBrace(Buffered(variationRuns[k].buffer, text))),
                       variationRuns[k].chunks + 1, variationRuns[k].stream \o text)
    /\ UNCHANGED <<apiKeyConfigured, sessions, currentSessionIndex, focusedArtifactIndex,
                   selectedStyles, isLoading, refinementQuestions, pendingPrompt,
                   userAnswers, componentVariations, drawerState, capturedSessionsLength,
                   submissions, generations, submitCount, variationRequestCount,
                   variationApplied>>
    /\ UNCHANGED <<decoderVars, extractVars, limits>>

\* handleGenerateVariations: the body of its loop takes the value yielded and
\* appends it when it has a name and an html; the loop then asks for the next
\* value, and parseJsonStream resumes, cuts the span and runs up to its next
\* yield.
VariationResume(k) ==
    /\ Mounted
    /\ k \in 1..Len(variationRuns)
    /\ variationRuns[k].yieldEnd # 0
    /\ componentVariations' =
          componentVariations \o NewVariations(<<variationRuns[k].variation>>)
    /\ VariationScanOn(k, CutSpan(variationRuns[k].buffer, variationRuns[k].yieldEnd),
                       NextYield(CutSpan(variationRuns[k].buffer, variationRuns[k].yieldEnd),
                                 FirstBrace(CutSpan(variationRuns[k].buffer,
                                                    variationRuns[k].yieldEnd))),
                       variationRuns[k].chunks, variationRuns[k].stream)
    /\ UNCHANGED <<apiKeyConfigured, sessions, currentSessionIndex, focusedArtifactIndex,
                   selectedStyles, isLoading, refinementQuestions, pendingPrompt,
                   userAnswers, drawerState, capturedSessionsLength, submissions,
                   generations, submitCount, variationRequestCount, variationApplied>>
    /\ UNCHANGED <<decoderVars, extractVars, limits>>

\* handleGenerateVariations: its stream ended; finally.
VariationEnd(k) ==
    /\ Mounted
    /\ k \in 1..Len(variationRuns)
    /\ variationRuns[k].yieldEnd = 0
    /\ variationRuns' = RemoveAt(variationRuns, k)
    /\ isLoading' = FALSE
    /\ UNCHANGED <<apiKeyConfigured, sessions, currentSessionIndex, focusedArtifactIndex,
                   selectedStyles, refinementQuestions, pendingPrompt, userAnswers,
                   componentVariations, drawerState, capturedSessionsLength, submissions,
                   generations, submitCount, variationRequestCount, variationApplied>>
    /\ UNCHANGED <<decoderVars, extractVars, limits>>

\* handleGenerateVariations: opening or reading its stream threw; catch, finally.
VariationThrow(k) ==
    /\ Mounted
    /\ k \in 1..Len(variationRuns)
    /\ variationRuns[k].yieldEnd = 0
    /\ variationRuns' = RemoveAt(variationRuns, k)
    /\ isLoading' = FALSE
    /\ UNCHANGED <<apiKeyConfigured, sessions, currentSessionIndex, focusedArtifactIndex,
                   selectedStyles, refinementQuestions, pendingPrompt, userAnswers,
                   componentVariations, drawerState, capturedSessionsLength, submissions,
                   generations, submitCount, variationRequestCount, variationApplied>>
    /\ UNCHANGED <<decoderVars, extractVars, limits>>

\* The ids of the artifacts at a session and artifact position: one or none.
ArtifactIdsAt(sessionIndex, artifactIndex) ==
    IF sessionIndex >= 0 /\ sessionIndex < Len(sessions)
       /\ artifactIndex >= 0 /\ artifactIndex < NumArtifacts
    THEN {sessions[sessionIndex + 1].artifacts[artifactIndex + 1].id}
    ELSE {}

\* applyVariation, from the card of variation n in the open drawer.
ApplyVariation(n) ==
    /\ Mounted
    /\ drawerState.isOpen
    /\ drawerState.mode = "variations"
    /\ n \in 1..Len(componentVariations)
    /\ IF focusedArtifactIndex = NoFocus
       THEN UNCHANGED <<sessions, drawerState, variationApplied>>
       ELSE /\ sessions' = ApplyVariationAt(sessions, currentSessionIndex,
                                            focusedArtifactIndex, componentVariations[n].html)
            /\ drawerState' = [drawerState EXCEPT !.isOpen = FALSE]
            /\ variationApplied' = variationApplied
                   \cup ArtifactIdsAt(currentSessionIndex, focusedArtifactIndex)
    /\ UNCHANGED <<apiKeyConfigured, currentSessionIndex, focusedArtifactIndex,
                   selectedStyles, isLoading, refinementQuestions, pendingPrompt,
                   userAnswers, componentVariations, capturedSessionsLength, submissions,
                   generations, variationRuns, submitCount, variationRequestCount>>
    /\ UNCHANGED <<decoderVars, extractVars, limits>>

\* handleShowCode, from the Source button.
HandleShowCode ==
    /\ Mounted
    /\ CurrentSessionExists
    /\ focusedArtifactIndex # NoFocus
    /\ drawerState' = [isOpen |-> TRUE, mode |-> "code",
                       data |-> sessions[currentSessionIndex + 1]
                                    .artifacts[focusedArtifactIndex + 1].html]
    /\ UNCHANGED <<apiKeyConfigured, sessions, currentSessionIndex, focusedArtifactIndex,
                   selectedStyles, isLoading, refinementQuestions, pendingPrompt,
                   userAnswers, componentVariations, capturedSessionsLength, submissions,
                   generations, variationRuns, submitCount, variationRequestCount,
                   variationApplied>>
    /\ UNCHANGED <<decoderVars, extractVars, limits>>

\* The drawer's onClose.
CloseDrawer ==
    /\ Mounted
    /\ drawerState.isOpen
    /\ drawerState' = [drawerState EXCEPT !.isOpen = FALSE]
    /\ UNCHANGED <<apiKeyConfigured, sessions, currentSessionIndex, focusedArtifactIndex,
                   selectedStyles, isLoading, refinementQuestions, pendingPrompt,
                   userAnswers, componentVariations, capturedSessionsLength, submissions,
                   generations, variationRuns, submitCount, variationRequestCount,
                   variationApplied>>
    /\ UNCHANGED <<decoderVars, extractVars, limits>>

NavigationUnchanged ==
    /\ UNCHANGED <<apiKeyConfigured, sessions, selectedStyles, isLoading,
                   refinementQuestions, pendingPrompt, userAnswers, componentVariations,
                   drawerState, capturedSessionsLength, submissions, generations,
                   variationRuns, submitCount, variationRequestCount, variationApplied>>
    /\ UNCHANGED <<decoderVars, extractVars, limits>>

\* A click on the card at position a of a rendered session.
FocusArtifact(a) ==
    /\ Mounted
    /\ Len(sessions) > 0
    /\ focusedArtifactIndex' = a
    /\ UNCHANGED currentSessionIndex
    /\ NavigationUnchanged

\* The Grid View button.
GridView ==
    /\ Mounted
    /\ focusedArtifactIndex # NoFocus
    /\ focusedArtifactIndex' = NoFocus
    /\ UNCHANGED currentSessionIndex
    /\ NavigationUnchanged

hasStarted == Len(sessions) > 0 \/ isLoading

canGoForward ==
    /\ hasStarted
    /\ IF focusedArtifactIndex # NoFocus
       THEN focusedArtifactIndex <
              (IF CurrentSessionExists THEN Len(sessions[currentSessionIndex + 1].artifacts) ELSE 0) - 1
       ELSE currentSessionIndex < Len(sessions) - 1

canGoBack ==
    /\ hasStarted
    /\ IF focusedArtifactIndex # NoFocus
       THEN focusedArtifactIndex > 0
       ELSE currentSessionIndex > 0

\* nextItem, from the right handle.
NextItem ==
    /\ Mounted
    /\ canGoForward
    /\ IF focusedArtifactIndex # NoFocus
       THEN /\ focusedArtifactIndex' = IF focusedArtifactIndex < 2
                                       THEN focusedArtifactIndex + 1
                                       ELSE focusedArtifactIndex
            /\ UNCHANGED currentSessionIndex
       ELSE /\ currentSessionIndex' = IF currentSessionIndex < Len(sessions) - 1
                                      THEN currentSessionIndex + 1
                                      ELSE currentSessionIndex
            /\ UNCHANGED focusedArtifactIndex
    /\ NavigationUnchanged

\* prevItem, from the left handle.
PrevItem ==
    /\ Mounted
    /\ canGoBack
    /\ IF focusedArtifactIndex # NoFocus
       THEN /\ focusedArtifactIndex' = IF focusedArtifactIndex > 0
                                       THEN focusedArtifactIndex - 1
                                       ELSE focusedArtifactIndex
            /\ UNCHANGED currentSessionIndex
       ELSE /\ currentSessionIndex' = IF currentSessionIndex > 0
                                      THEN currentSessionIndex - 1
                                      ELSE currentSessionIndex
            /\ UNCHANGED focusedArtifactIndex
    /\ NavigationUnchanged

(***************************************************************************)
(* Specifications.                                                         *)
(***************************************************************************)

\* The App after its first render, with or without an API key.
AppInit ==
    /\ apiKeyConfigured \in BOOLEAN
    /\ sessions = <<>>
    /\ currentSessionIndex = -1
    /\ focusedArtifactIndex = NoFocus
    /\ selectedStyles = {}
    /\ isLoading = FALSE
    /\ refinementQuestions = Null
    /\ pendingPrompt = Null
    /\ userAnswers = {}
    /\ componentVariations = <<>>
    /\ drawerState = [isOpen |-> FALSE, mode |-> "none", data |-> <<>>]
    /\ capturedSessionsLength = 0
    /\ submissions = <<>>
    /\ generations = <<>>
    /\ variationRuns = <<>>
    /\ submitCount = 0
    /\ variationRequestCount = 0
    /\ variationApplied = {}

Limits(submissions_, fragments_, variationRequests_, variationChunks_) ==
    [submissions |-> submissions_, fragments |-> fragments_,
     variationRequests |-> variationRequests_, variationChunks |-> variationChunks_]

\* The App with nobody using it, for the runs of the pure functions.
AppIdle == AppInit /\ apiKeyConfigured /\ limits = Limits(0, 0, 0, 0)

\* The whole App, every handler, for one submission: streams of
\* MaxAppFragments fragments in all.
Init ==
    /\ AppInit
    /\ limits = Limits(1, MaxAppFragments, MaxVariationRequests, MaxVariationChunks)
    /\ DecoderIdle
    /\ ExtractIdle

Next ==
    \/ \E style \in StylePresets : ToggleStyle(style)
    \/ \E prompt \in Prompts : HandleInitialSubmit(prompt)
    \/ \E k \in 1..MaxSessions, text \in ClarifyResponses : ClarifyReturn(k, text)
    \/ \E k \in 1..MaxSessions : ClarifyThrow(k)
    \/ \E choice \in QuestionChoices : HandleAnswerSelect(choice)
    \/ HandleFinalizeGeneration
    \/ \E i \in 1..MaxSessions, text \in PlanResponses : PlanReturn(i, text)
    \/ \E i \in 1..MaxSessions : PlanThrow(i)
    \/ \E i \in 1..MaxSessions, j \in 1..NumArtifacts : TaskChunk(i, j)
    \/ \E i \in 1..MaxSessions, j \in 1..NumArtifacts : TaskNonTextChunk(i, j)
    \/ \E i \in 1..MaxSessions, j \in 1..NumArtifacts : TaskEnd(i, j)
    \/ \E i \in 1..MaxSessions, j \in 1..NumArtifacts : TaskThrow(i, j)
    \/ \E i \in 1..MaxSessions : StartGenerationFinally(i)
    \/ HandleGenerateVariations
    \/ \E k \in 1..MaxVariationRequests, text \in VariationChunks : VariationChunk(k, text)
    \/ \E k \in 1..MaxVariationRequests : VariationResume(k)
    \/ \E k \in 1..MaxVariationRequests : VariationEnd(k)
    \/ \E k \in 1..MaxVariationRequests : VariationThrow(k)
    \/ HandleShowCode
    \/ \E n \in 1..(MaxVariationRequests * MaxVariationChunks) : ApplyVariation(n)
    \/ CloseDrawer
    \/ \E a \in 0..(NumArtifacts - 1) : FocusArtifact(a)
    \/ GridView
    \/ NextItem
    \/ PrevItem

Spec == Init /\ [][Next]_vars

\* One submission and its generation: clarification, planning and the 3
\* streams, of MaxFragments fragments in all; nobody navigates or asks for
\* variations.
InitGeneration ==
    /\ AppInit
    /\ limits = Limits(1, MaxFragments, 0, 0)
    /\ DecoderIdle
    /\ ExtractIdle

NextGeneration ==
    \/ \E prompt \in Prompts : HandleInitialSubmit(prompt)
    \/ \E k \in 1..MaxSessions, text \in ClarifyResponses : ClarifyReturn(k, text)
    \/ \E k \in 1..MaxSessions : ClarifyThrow(k)
    \/ \E choice \in QuestionChoices : HandleAnswerSelect(choice)
    \/ HandleFinalizeGeneration
    \/ \E i \in 1..MaxSessions, text \in PlanResponses : PlanReturn(i, text)
    \/ \E i \in 1..MaxSessions : PlanThrow(i)
    \/ \E i \in 1..MaxSessions, j \in 1..NumArtifacts : TaskChunk(i, j)
    \/ \E i \in 1..MaxSessions, j \in 1..NumArtifacts : TaskNonTextChunk(i, j)
    \/ \E i \in 1..MaxSessions, j \in 1..NumArtifacts : TaskEnd(i, j)
    \/ \E i \in 1..MaxSessions, j \in 1..NumArtifacts : TaskThrow(i, j)
    \/ \E i \in 1..MaxSessions : StartGenerationFinally(i)

SpecGeneration == InitGeneration /\ [][NextGeneration]_vars

\* MaxSessions submissions and their generations, which may overlap, with
\* streams of MaxSessionsFragments fragments in all.
InitSessions ==
    /\ AppInit
    /\ limits = Limits(MaxSessions, MaxSessionsFragments, 0, 0)
    /\ DecoderIdle
    /\ ExtractIdle

SpecSessions == InitSessions /\ [][NextGeneration]_vars

\* MaxSessions submissions one after the other and everything a user does
\* between and during them but toggling style tags: navigation, variation
\* requests, applyVariation.  The remote model asks no question and its
\* generation streams deliver no text.
InitHistory ==
    /\ AppInit
    /\ limits = Limits(MaxSessions, 0, MaxVariationRequests, MaxVariationChunks)
    /\ DecoderIdle
    /\ ExtractIdle

NextHistory ==
    \/ \E prompt \in Prompts : HandleInitialSubmit(prompt)
    \/ \E k \in 1..MaxSessions : ClarifyThrow(k)
    \/ \E i \in 1..MaxSessions, text \in PlanResponses : PlanReturn(i, text)
    \/ \E i \in 1..MaxSessions : PlanThrow(i)
    \/ \E i \in 1..MaxSessions, j \in 1..NumArtifacts : TaskEnd(i, j)
    \/ \E i \in 1..MaxSessions, j \in 1..NumArtifacts : TaskThrow(i, j)
    \/ \E i \in 1..MaxSessions : StartGenerationFinally(i)
    \/ HandleGenerateVariations
    \/ \E k \in 1..MaxVariationRequests, text \in VariationChunks : VariationChunk(k, text)
    \/ \E k \in 1..MaxVariationRequests : VariationResume(k)
    \/ \E k \in 1..MaxVariationRequests : VariationEnd(k)
    \/ HandleShowCode
    \/ \E n \in 1..(MaxVariationRequests * MaxVariationChunks) : ApplyVariation(n)
    \/ \E a \in 0..(NumArtifacts - 1) : FocusArtifact(a)
    \/ GridView
    \/ NextItem
    \/ PrevItem

SpecHistory == InitHistory /\ [][NextHistory]_vars

\* One submission whose planning call fails, then a variation request for
\* one of its artifacts: the variation stream delivers up to MaxStreamChunks
\* chunks holding two different variations and a record without html.
InitVariations ==
    /\ AppInit
    /\ limits = Limits(1, 0, MaxVariationRequests, MaxStreamChunks)
    /\ DecoderIdle
    /\ ExtractIdle

NextVariations ==
    \/ \E prompt \in Prompts : HandleInitialSubmit(prompt)
    \/ \E k \in 1..MaxSessions : ClarifyThrow(k)
    \/ \E i \in 1..MaxSessions : PlanThrow(i)
    \/ \E a \in 0..(NumArtifacts - 1) : FocusArtifact(a)
    \/ HandleGenerateVariations
    \/ \E k \in 1..MaxVariationRequests, text \in VariationStreamChunks :
           VariationChunk(k, text)
    \/ \E k \in 1..MaxVariationRequests : VariationResume(k)
    \/ \E k \in 1..MaxVariationRequests : VariationEnd(k)
    \/ \E k \in 1..MaxVariationRequests : VariationThrow(k)
    \/ HandleShowCode
    \/ \E n \in 1..(MaxVariationRequests * MaxStreamChunks * MaxChunkRecords) :
           ApplyVariation(n)
    \/ CloseDrawer

SpecVariations == InitVariations /\ [][NextVariations]_vars

\* MaxPointerSessions submissions, with or without a questionnaire, whose
\* planning calls fail, and between them style-tag toggles and navigation.
InitPointer ==
    /\ AppInit
    /\ limits = Limits(MaxPointerSessions, 0, 0, 0)
    /\ DecoderIdle
    /\ ExtractIdle

NextPointer ==
    \/ \E style \in StylePresets : ToggleStyle(style)
    \/ \E prompt \in Prompts : HandleInitialSubmit(prompt)
    \/ \E k \in 1..MaxPointerSessions, text \in ClarifyResponses : ClarifyReturn(k, text)
    \/ \E k \in 1..MaxPointerSessions : ClarifyThrow(k)
    \/ HandleFinalizeGeneration
    \/ \E i \in 1..MaxPointerSessions : PlanThrow(i)
    \/ \E a \in 0..(NumArtifacts - 1) : FocusArtifact(a)
    \/ GridView
    \/ NextItem
    \/ PrevItem

SpecPointer == InitPointer /\ [][NextPointer]_vars

InitDecoder == DecoderInit /\ ExtractIdle /\ AppIdle
NextDecoder == DecodeChunk \/ DecodeResume \/ DecodeNonTextChunk \/ DecodeEnd
SpecDecoder == InitDecoder /\ [][NextDecoder]_vars

InitExtract == ExtractInit /\ DecoderIdle /\ AppIdle
NextExtract == ExtractCall
SpecExtract == InitExtract /\ [][NextExtract]_vars


(***************************************************************************)
(* Properties of parseJsonStream, checked under SpecDecoder.               *)
(***************************************************************************)

IsWellFormedObject(p) == p \in WellFormedObjects
AllIn(ps, names) == \A n \in 1..Len(ps) : ps[n] \in names
Front(ps) == SubSeq(ps, 1, Len(ps) - 1)

\* The parses of the well-formed objects among ps, in order.
PieceValues(ps) ==
    LET objs == SelectSeq(ps, IsWellFormedObject) IN
    [n \in 1..Len(objs) |-> JsonParse(PieceText(objs[n])).val]

\* C1 as stated: once the stream of a concatenation of well-formed objects
\* has ended, whatever the cuts, the values yielded are the parses of the
\* objects, one per object, in order.
C1_CompleteForWellFormed ==
    (streamEnded /\ AllIn(pieces, WellFormedObjects \cup Separators))
        => yielded = PieceValues(pieces)

\* C1 amended: the same for objects that hold no brace inside a string
\* literal.
C1_CompleteForPlain ==
    (streamEnded /\ AllIn(pieces, PlainObjects \cup Separators))
        => yielded = PieceValues(pieces)

\* C1 witness: three plain objects, one of them nested, a cut inside a
\* string literal, and three values yielded.
C1_Witness ==
    /\ streamEnded
    /\ pieces = <<"nested", "str", "empty">>
    /\ splitInString
    /\ Len(yielded) = 3

\* C2 as stated: one malformed object between two well-formed ones, and the
\* two well-formed ones are yielded, in order, and nothing else.
C2_ResilientToMalformed ==
    (/\ streamEnded
     /\ Len(pieces) = 3
     /\ pieces[1] \in PlainObjects
     /\ pieces[2] \in MalformedObjects
     /\ pieces[3] \in PlainObjects)
        => yielded = PieceValues(<<pieces[1], pieces[3]>>)

\* C3 as stated: a stream that ends inside an object yields nothing for that
\* partial object, and what the objects before it yielded is as without it.
C3_NoYieldOnTruncation ==
    (/\ streamEnded
     /\ pieces # <<>>
     /\ pieces[Len(pieces)] \in PartialObjects
     /\ AllIn(Front(pieces), PlainObjects \cup Separators))
        => yielded = PieceValues(Front(pieces))

\* C3 amended: the same when no string literal of the partial object holds a
\* brace; the partial object is then still in the buffer at the end.
C3_NoYieldOnPlainTruncation ==
    (/\ streamEnded
     /\ pieces # <<>>
     /\ pieces[Len(pieces)] \in PlainPartialObjects
     /\ AllIn(Front(pieces), PlainObjects \cup Separators))
        => /\ yielded = PieceValues(Front(pieces))
           /\ EndsWith(buffer, PieceText(pieces[Len(pieces)]))

\* C3 witness: two objects yielded, then the stream ended inside a third
\* that holds a closed nested object.
C3_Witness ==
    /\ streamEnded
    /\ pieces = <<"str", "nested", "unclosed">>
    /\ Len(yielded) = 2
    /\ buffer = PieceText("unclosed")


(***************************************************************************)
(* Properties of extractJson, checked under SpecExtract.                   *)
(***************************************************************************)

\* The texts of the three attempts of the chain: the whole text, what the
\* fenced block holds, what the bracket pattern gives.
ChainAttempts(text) ==
    <<text>>
    \o (IF FenceMatch(text).found THEN <<MatchCandidate(FenceMatch(text))>> ELSE <<>>)
    \o (IF ArrayMatch(text).found THEN <<MatchCandidate(ArrayMatch(text))>> ELSE <<>>)

\* The value of the first attempt that parses, Null when none does.
FirstSuccess(attempts) ==
    IF \E n \in 1..Len(attempts) : JsonParse(attempts[n]).ok
    THEN JsonParse(attempts[CHOOSE n \in 1..Len(attempts) :
                               /\ JsonParse(attempts[n]).ok
                               /\ \A m \in 1..(n - 1) : ~JsonParse(attempts[m]).ok]).val
    ELSE Null

\* C4 as stated: extractJson returns the value of the first of its three
\* attempts that succeeds, and null only when all three fail.
C4_FirstSuccessOfThree ==
    extracted # <<>> => extracted[1] = FirstSuccess(ChainAttempts(PartsText(parts)))

\* C5 as stated: for a text that is no JSON and has no fenced block but holds
\* a valid array between its first opening and last closing bracket,
\* extractJson returns the parse of that span, brackets included.
C5_ArraySpanWithBrackets ==
    (/\ extracted # <<>>
     /\ ~JsonParse(PartsText(parts)).ok
     /\ ~FenceMatch(PartsText(parts)).found
     /\ ArrayMatch(PartsText(parts)).found
     /\ JsonParse(ArrayMatch(PartsText(parts)).whole).ok)
        => extracted[1] = JsonParse(ArrayMatch(PartsText(parts)).whole).val


(***************************************************************************)
(* Properties of the store and of the generation pipeline.                 *)
(***************************************************************************)

Artifacts == 1..NumArtifacts
Statuses(s) == [a \in Artifacts |-> sessions[s].artifacts[a].status]
Labels(s) == [a \in Artifacts |-> sessions[s].artifacts[a].styleName]

\* The first n fragments of a generation stream, concatenated.
FragmentsText(n) == Concat([k \in 1..n |-> FragmentAt(k)])

\* C6 as stated: whatever writes the store, the status of an artifact
\* changes only from streaming to complete or from streaming to error.
C6_StatusOnlyLeavesStreaming ==
    [][\A s \in 1..Len(sessions), a \in Artifacts :
          sessions'[s].artifacts[a].status # sessions[s].artifacts[a].status
            => /\ sessions[s].artifacts[a].status = "streaming"
               /\ sessions'[s].artifacts[a].status \in {"complete", "error"}]_vars

\* C7: while a task is reading its stream and its artifact is streaming, the
\* content stored for the artifact is the concatenation, in arrival order,
\* of the fragments the task has received.
C7_ContentIsFragmentsInOrder ==
    \A i \in 1..Len(generations), j \in Artifacts :
        (/\ generations[i].tasks[j].pc = "streaming"
         /\ sessions[i].artifacts[j].status = "streaming")
            => sessions[i].artifacts[j].html
                   = Str(FragmentsText(generations[i].tasks[j].fragments))

\* C7 witness: a task has received two fragments while a sibling received
\* one and another none, all three still streaming.
C7_Witness ==
    /\ Len(generations) = 1
    /\ \A j \in Artifacts : generations[1].tasks[j].pc = "streaming"
    /\ generations[1].tasks[1].fragments = 1
    /\ generations[1].tasks[2].fragments = 2
    /\ generations[1].tasks[3].fragments = 0
    /\ sessions[1].artifacts[2].html = Str(FragmentAt(1) \o FragmentAt(2))

\* C8: a step of a running generation task (a fragment, the end of its
\* stream, a failure) changes nothing of the store but the content and the
\* status of its own artifact: the other sessions, the other artifacts of
\* its session and the other fields of its artifact stay as they were.
C8_TaskWritesOwnArtifactOnly ==
    [][\A i \in 1..Len(generations), j \in Artifacts :
          (/\ generations[i].tasks[j].pc = "streaming"
           /\ generations'[i].tasks[j] # generations[i].tasks[j])
            => /\ Len(sessions') = Len(sessions)
               /\ \A s \in 1..Len(sessions) :
                     /\ s # i => sessions'[s] = sessions[s]
                     /\ [sessions'[s] EXCEPT !.artifacts = <<>>]
                            = [sessions[s] EXCEPT !.artifacts = <<>>]
                     /\ Len(sessions'[s].artifacts) = NumArtifacts
               /\ \A a \in Artifacts :
                     a # j => sessions'[i].artifacts[a] = sessions[i].artifacts[a]
               /\ sessions'[i].artifacts[j].id = sessions[i].artifacts[j].id
               /\ sessions'[i].artifacts[j].styleName = sessions[i].artifacts[j].styleName]_vars

\* C8 witness: two sessions whose tasks run at the same time; in the second
\* one task has written a fragment, one has failed and one has ended, and
\* the first still holds what its own tasks wrote.
C8_Witness ==
    /\ Len(sessions) = 2
    /\ generations[1].tasks[1].pc = "failed"
    /\ generations[1].tasks[2].pc = "streaming"
    /\ Statuses(1) = <<"error", "streaming", "streaming">>
    /\ generations[2].tasks[1].fragments = 1
    /\ generations[2].tasks[2].pc = "failed"
    /\ generations[2].tasks[3].pc = "ended"
    /\ sessions[2].artifacts[1].html = Str(FragmentAt(1))
    /\ Statuses(2) = <<"streaming", "error", "error">>

\* C9: a task that has stopped leaves its artifact in the status its own
\* stream determines, whatever its siblings do: error when the stream threw,
\* else complete exactly when the cleaned text of its fragments is not empty.
C9_StatusFromOwnStream ==
    \A i \in 1..Len(generations), j \in Artifacts :
        /\ generations[i].tasks[j].pc = "failed"
              => sessions[i].artifacts[j].status = "error"
        /\ generations[i].tasks[j].pc = "ended"
              => sessions[i].artifacts[j].status =
                     (IF CleanHtml(FragmentsText(generations[i].tasks[j].fragments)) # <<>>
                      THEN "complete" ELSE "error")

\* C9 witness: the three tasks have stopped, the second by a throw after one
\* fragment, the others at the end of a stream of one fragment.
C9_Witness ==
    /\ Len(generations) = 1
    /\ generations[1].pc = "done"
    /\ generations[1].tasks[2].pc = "failed"
    /\ \A j \in Artifacts : generations[1].tasks[j].fragments = 1
    /\ Statuses(1) = <<"complete", "error", "complete">>

\* The labels C10 expects for a returned list: the returned labels in their
\* positions, the positions left filled from the fallback list in order.
PaddedLabels(returned) ==
    [a \in Artifacts |-> IF a <= Len(returned) THEN returned[a]
                         ELSE FallbackStyles[a - Len(returned)]]

\* C10 as stated: when the planning call returned a list of labels, the
\* session holds the first 3 of them, short lists padded from the fallback
\* list.
C10_PadsAndTruncates ==
    \A i \in 1..Len(generations) :
        (/\ generations[i].styleResponse # <<>>
         /\ extractJson(generations[i].styleResponse[1]).t = "arr")
            => Labels(i) = PaddedLabels(extractJson(generations[i].styleResponse[1]).v)


\* The planning call of generation i is over and gave no usable list: it
\* threw, there was no API key, or what it returned holds no list.
PlanningFailed(i) ==
    /\ generations[i].pc # "planning"
    /\ \/ generations[i].styleResponse = <<>>
       \/ extractJson(TextOrEmptyList(generations[i].styleResponse[1])).t # "arr"

\* C11 as stated: when the planning call failed or returned no usable list,
\* the 3 artifacts of the session hold the fallback labels and the 3
\* generation tasks have been launched.
C11_PlanningFailureFallsBack ==
    \A i \in 1..Len(generations) :
        PlanningFailed(i)
            => /\ Labels(i) = FallbackStyles
               /\ \A j \in Artifacts : generations[i].tasks[j].pc # "idle"

\* C12 as stated, in the form a finite run refutes: once a startGeneration
\* call has run to its end, every artifact of its session is complete or
\* error, whatever the planning call and the 3 streams did.
C12_FinalisedWhenDone ==
    \A i \in 1..Len(generations) :
        generations[i].pc = "done"
            => \A j \in Artifacts : sessions[i].artifacts[j].status \in {"complete", "error"}

\* C13 as stated: right after a step that appends a session, the
\* current-session pointer is the last index of the sessions.
C13_PointerFollowsCreation ==
    [][Len(sessions') = Len(sessions) + 1
          => currentSessionIndex' = Len(sessions') - 1]_vars


\* The ids of all artifacts in the store, session by session.
ArtifactIds == [s \in 1..Len(sessions) |-> [a \in Artifacts |-> sessions[s].artifacts[a].id]]

\* C14: no step removes or reorders a session or changes the id, the prompt
\* or the artifact ids of one; every submission that has reached
\* startGeneration has one session, every session has 3 artifacts, and no
\* two artifacts of the store share an id.
C14_SessionsAppendOnly ==
    /\ [](/\ Len(sessions) = submitCount - Len(submissions)
          /\ \A s \in 1..Len(sessions) : Len(sessions[s].artifacts) = NumArtifacts
          /\ \A s, t \in 1..Len(sessions), a, b \in Artifacts :
                ArtifactIds[s][a] = ArtifactIds[t][b] => (s = t /\ a = b))
    /\ [][/\ Len(sessions') >= Len(sessions)
           /\ \A s \in 1..Len(sessions) :
                 /\ sessions'[s].id = sessions[s].id
                 /\ sessions'[s].prompt = sessions[s].prompt
                 /\ Len(sessions'[s].artifacts) = Len(sessions[s].artifacts)
                 /\ ArtifactIds'[s] = ArtifactIds[s]]_vars

\* C14 witness: two submissions have made two sessions; applyVariation has
\* written an artifact of the first, and the second is generating.
C14_Witness ==
    /\ submitCount = 2
    /\ Len(sessions) = 2
    /\ sessions[1].artifacts[2].html = Str(<<"H">>)
    /\ sessions[2].artifacts[1].status = "error"
    /\ sessions[2].artifacts[3].status = "streaming"

\* A RefinementQuestion: an object with a string id, a string text and a list
\* of options.
IsQuestion(q) ==
    /\ q.t = "obj"
    /\ Member(q, <<"id">>).t = "str"
    /\ Member(q, <<"text">>).t = "str"
    /\ Member(q, <<"options">>).t = "arr"

\* C15: clarification never blocks generation. The questionnaire is entered
\* only with at least one well-formed question; a clarification call that
\* settles without opening it (it threw, or its answer held no usable
\* question) appends the session with an empty answers map in the same step.
C15_ClarificationNeverBlocks ==
    /\ [](refinementQuestions # Null
            => /\ refinementQuestions.t = "arr"
               /\ \E n \in 1..Len(refinementQuestions.v) :
                      IsQuestion(refinementQuestions.v[n]))
    /\ [][(Len(submissions') < Len(submissions)
            /\ refinementQuestions' = refinementQuestions)
          => /\ Len(sessions') = Len(sessions) + 1
             /\ sessions'[Len(sessions')].userAnswers = {}]_vars

\* C16: the busy indicator tracks Settled. isLoading is never false while a
\* generation task of some session is still running, and the step in which
\* startGeneration goes on after its 3 tasks have settled clears it.
C16_BusyTracksSettled ==
    /\ [](isLoading = FALSE
            => \A i \in 1..Len(generations), j \in Artifacts :
                   generations[i].tasks[j].pc # "streaming")
    /\ [][\A i \in 1..Len(generations) :
              (generations[i].pc # "done" /\ generations'[i].pc = "done")
                  => isLoading' = FALSE]_vars

\* The markup the first n fragments of a generation stream carry between
\* their fences: nothing, the opening tag, then the whole paragraph.
Unfenced(n) ==
    IF n = 0 THEN <<>>
    ELSE IF n = 1 THEN <<"<p>">>
    ELSE <<"<p>", "</p>">>

\* C17: finalisation outcome. A task whose stream ended leaves as content the
\* text of its fragments without the fences and the whitespace around them,
\* with status complete exactly when that text is not empty, else error; a
\* task whose stream threw leaves the fixed error markup with status error.
C17_FinalisationOutcome ==
    \A i \in 1..Len(generations), j \in Artifacts :
        /\ generations[i].tasks[j].pc = "ended"
              => /\ sessions[i].artifacts[j].html
                        = Str(Unfenced(generations[i].tasks[j].fragments))
                 /\ sessions[i].artifacts[j].status = "complete"
                        <=> Unfenced(generations[i].tasks[j].fragments) # <<>>
                 /\ sessions[i].artifacts[j].status \in {"complete", "error"}
        /\ generations[i].tasks[j].pc = "failed"
              => /\ sessions[i].artifacts[j].html = GenerationFailedHtml
                 /\ sessions[i].artifacts[j].status = "error"

\* C17 witness: the first task ended after both fenced fragments and a
\* trailing blank, the second threw after one fragment, the third ended
\* with no fragment at all.
C17_Witness ==
    /\ Len(generations) = 1
    /\ generations[1].pc = "done"
    /\ generations[1].tasks[1].pc = "ended" /\ generations[1].tasks[1].fragments = 3
    /\ generations[1].tasks[2].pc = "failed" /\ generations[1].tasks[2].fragments = 1
    /\ generations[1].tasks[3].pc = "ended" /\ generations[1].tasks[3].fragments = 0
    /\ sessions[1].artifacts[1].html = Str(<<"<p>", "</p>">>)
    /\ Statuses(1) = <<"complete", "error", "error">>

(***************************************************************************)
(* Properties of the variation flow, checked under SpecVariations.         *)
(***************************************************************************)

HasNameAndHtml(value) ==
    Truthy(Member(value, <<"name">>)) /\ Truthy(Member(value, <<"html">>))

\* The records with a name and an html among values, in order.
RecordsAmong(values) ==
    LET kept == SelectSeq(values, HasNameAndHtml) IN
    [n \in 1..Len(kept) |->
        [name |-> Member(kept[n], <<"name">>), html |-> Member(kept[n], <<"html">>)]]

\* The records with a name and an html among the values parseJsonStream
\* yields for a stream delivered in one piece, in order.
RecordsOf(stream) == RecordsAmong(ParseChunk(<<>>, stream).yielded)

\* The records a call of handleGenerateVariations has still to append from
\* the text it received: the value its decoder is suspended at and those
\* after it.
PendingRecords(run) ==
    IF run.yieldEnd = 0 THEN <<>>
    ELSE RecordsAmong(<<run.variation>>)
         \o RecordsAmong(ScanRest(CutSpan(run.buffer, run.yieldEnd), <<>>).yielded)

\* The records the call has appended so far: those of the text received but
\* the pending ones.
DecodedSoFar(run) ==
    SubSeq(RecordsOf(run.stream), 1,
           Len(RecordsOf(run.stream)) - Len(PendingRecords(run)))

\* C18: the variation flow. A call of handleGenerateVariations empties the
\* list; each step of its loop (a chunk arriving in its decoder, or its body
\* taking the value the decoder yielded) appends, in order, the records with
\* a name and an html that it takes, at most one in a step; the end or the
\* failure of the stream keeps the list; none of these steps changes the
\* sessions store.
C18_VariationFlowAppends ==
    [][/\ variationRequestCount' # variationRequestCount
            => componentVariations' = <<>> /\ sessions' = sessions
       /\ \A k \in 1..Len(variationRuns) :
            (Len(variationRuns') = Len(variationRuns)
                /\ variationRuns'[k] # variationRuns[k])
              => /\ componentVariations' = componentVariations
                        \o SubSeq(DecodedSoFar(variationRuns'[k]),
                                  Len(DecodedSoFar(variationRuns[k])) + 1,
                                  Len(DecodedSoFar(variationRuns'[k])))
                 /\ Len(componentVariations') <= Len(componentVariations) + 1
                 /\ sessions' = sessions
       /\ Len(variationRuns') < Len(variationRuns)
            => componentVariations' = componentVariations /\ sessions' = sessions]_vars

\* C18 witness: the first chunk of the variation stream held the second
\* variation and then the first; the loop has taken both, the list holds
\* them in that order and the decoder waits for the next chunk.
C18_Witness ==
    /\ variationRequestCount = 1
    /\ Len(variationRuns) = 1
    /\ variationRuns[1].chunks = 1
    /\ variationRuns[1].yieldEnd = 0
    /\ variationRuns[1].buffer = <<>>
    /\ Len(sessions) = 1
    /\ componentVariations = << [name |-> Str(<<"M">>), html |-> Str(<<"G">>)],
                                [name |-> Str(<<"N">>), html |-> Str(<<"H">>)] >>

(***************************************************************************)
(* Properties of the order of the steps of one submission.                 *)
(***************************************************************************)

\* The labels startGeneration deals out once the planning call of generation
\* i has answered: the first 3 of a list of 3 or more, else the fallbacks.
DealtLabels(i) ==
    LET returned == extractJson(TextOrEmptyList(generations[i].styleResponse[1])) IN
    IF returned.t = "arr" /\ Len(returned.v) >= 3
    THEN SubSeq(returned.v, 1, 3) ELSE FallbackStyles

\* C19: pipeline ordering. Every generation has its session in the store;
\* while its planning call is pending the session holds 3 artifacts with
\* empty content, status streaming and the placeholder label; once its tasks
\* are launched artifact a holds the a-th dealt label; and a step that
\* writes the content or the status of an artifact finds that label in place
\* and leaves it there.
C19_PipelineOrdering ==
    /\ [](\A i \in 1..Len(generations) :
            /\ i <= Len(sessions)
            /\ sessions[i].id = generations[i].sessionId
            /\ generations[i].pc = "planning"
                 => /\ Len(sessions[i].artifacts) = 3
                    /\ \A a \in Artifacts :
                          /\ sessions[i].artifacts[a].html = Str(<<>>)
                          /\ sessions[i].artifacts[a].status = "streaming"
                          /\ sessions[i].artifacts[a].styleName = PlaceholderStyle
            /\ (\E j \in Artifacts : generations[i].tasks[j].pc # "idle")
                 => \A a \in Artifacts :
                        sessions[i].artifacts[a].styleName = DealtLabels(i)[a])
    /\ [][\A i \in 1..Len(sessions), a \in Artifacts :
            (\/ sessions'[i].artifacts[a].html # sessions[i].artifacts[a].html
             \/ sessions'[i].artifacts[a].status # sessions[i].artifacts[a].status)
              => /\ sessions[i].artifacts[a].styleName = DealtLabels(i)[a]
                 /\ sessions'[i].artifacts[a].styleName = DealtLabels(i)[a]]_vars

\* C19 witness: the planning call answered four labels; the second artifact
\* has received its first fragment and the three artifacts hold the first
\* three labels in order.
C19_Witness ==
    /\ Len(generations) = 1
    /\ generations[1].pc = "streaming"
    /\ generations[1].tasks[2].fragments = 1
    /\ sessions[1].artifacts[2].html = Str(FragmentAt(1))
    /\ Labels(1) = <<Str(<<"A">>), Str(<<"B">>), Str(<<"C">>)>>

(***************************************************************************)
(* The spans parseJsonStream yields from, checked under SpecDecoder.       *)
(***************************************************************************)

\* The part of the delivered text that the decoder is done with: what is no
\* longer in the buffer and, while the decoder is suspended at its yield, the
\* part of the buffer up to the end of the span it yielded.
Consumed == SubSeq(Delivered, 1, Len(Delivered) - Len(buffer) + yieldEnd)

\* SpanEndsAt(text, e, k): the k-th yielded value is the parse of a span of
\* text ending at e, and the k - 1 values before it are parses of spans
\* lying before that span, each before the next.
RECURSIVE SpanEndsAt(_, _, _), SpansBefore(_, _, _)
SpanEndsAt(text, e, k) ==
    \E s \in 1..e :
        /\ text[s] = "{"
        /\ JsonParse(SubSeq(text, s, e)) = [ok |-> TRUE, val |-> yielded[k]]
        /\ SpansBefore(text, s - 1, k - 1)
SpansBefore(text, upto, k) ==
    \/ k = 0
    \/ \E e \in 1..upto : text[e] = "}" /\ SpanEndsAt(text, e, k)

\* C20: decoder spans never overlap. The buffer is always the end of the
\* delivered text; the values yielded so far are the parses of pairwise
\* disjoint spans of the delivered text, in increasing position order; the
\* last of these spans ends where the decoder is suspended in the buffer
\* and, once the decoder has resumed, exactly where the buffer begins, so
\* that the next scan starts after it.
C20_SpansNeverOverlap ==
    /\ Len(buffer) <= Len(Delivered)
    /\ buffer = SubSeq(Delivered, Len(Delivered) - Len(buffer) + 1, Len(Delivered))
    /\ yieldEnd \in 0..Len(buffer)
    /\ IF yielded = <<>> THEN Consumed = <<>>
       ELSE SpanEndsAt(Consumed, Len(Consumed), Len(yielded))

\* C20 witness: a nested object, a span that is no JSON and an empty object
\* were delivered; two values were yielded and the buffer is empty.
C20_Witness ==
    /\ streamEnded
    /\ pieces = <<"nested", "invalid", "empty">>
    /\ Len(yielded) = 2
    /\ buffer = <<>>

(***************************************************************************)
(* Properties of applyVariation and of the session pointer.                *)
(***************************************************************************)

\* C21 as stated: a finalised artifact is frozen with respect to generation.
\* A step of a generation (the planning answer, a fragment, the end or the
\* failure of a stream) changes neither the content nor the status of an
\* artifact whose status is complete or error.
C21_FinalisedIsFrozen ==
    [][generations' # generations
         => \A s \in 1..Len(sessions), a \in Artifacts :
                sessions[s].artifacts[a].status \in {"complete", "error"}
                  => /\ sessions'[s].artifacts[a].html = sessions[s].artifacts[a].html
                     /\ sessions'[s].artifacts[a].status
                            = sessions[s].artifacts[a].status]_vars

\* C22 as stated: applyVariation targets the artifact the variations were
\* requested for. A step that rewrites an artifact without being a step of
\* a generation (applyVariation is the only one) happens with an artifact
\* in focus and changes no artifact but the one whose id the drawer
\* recorded when the variations were requested.
C22_ApplyTargetsRequested ==
    [][(/\ sessions' # sessions
        /\ Len(sessions') = Len(sessions)
        /\ generations' = generations)
         => /\ focusedArtifactIndex # NoFocus
            /\ \A s \in 1..Len(sessions), a \in Artifacts :
                  sessions'[s].artifacts[a] # sessions[s].artifacts[a]
                    => sessions[s].artifacts[a].id = drawerState.data]_vars

\* C23: the current-session pointer is always in range: -1 while there is
\* no session, else the position of one of the sessions.
C23_PointerInRange ==
    IF Len(sessions) = 0
    THEN currentSessionIndex = -1
    ELSE currentSessionIndex >= 0 /\ currentSessionIndex < Len(sessions)

\* C23 witness: a style tag was toggled after the first session was made,
\* a second submission made a second session, and the pointer is on it.
C23_Witness ==
    /\ Len(sessions) = 2
    /\ capturedSessionsLength = 1
    /\ selectedStyles # {}
    /\ currentSessionIndex = 1

(***************************************************************************)
(* The nesting depth of the spans parseJsonStream yields from.             *)
(***************************************************************************)

\* Balanced spans that are no JSON, one of them holding a nested object.
BalancedInvalidObjects == {"invalid", "invalidNested"}

\* C24 as stated: the decoder yields only top-level objects. In a stream of
\* balanced pieces the spans that open at depth zero are the pieces, so once
\* the stream has ended the values yielded are the parses of the well-formed
\* pieces and nothing else: no object nested in a piece, parsed or not, is a
\* value of its own.
C24_OnlyTopLevelObjects ==
    (/\ streamEnded
     /\ AllIn(pieces, PlainObjects \cup BalancedInvalidObjects \cup Separators))
        => yielded = PieceValues(pieces)

====
